---- MODULE Spec2Model ----
(***************************************************************************)
(* Webhook receiver of whatsapp-qms: src/app.js (the Express listener: the *)
(* body parsers with verifyRequestSignature, GET /webhook, POST /webhook)  *)
(* and the Message constructor of src/unnamed/part_000.                    *)
(*                                                                         *)
(* JavaScript values are modelled as follows.  An object is a function     *)
(* from its own property names to their values (a record); a property the  *)
(* object lacks is a name outside its DOMAIN, and the object {} is <<>>.   *)
(* An array is a sequence.  Reading a property that may be undefined gives *)
(* an option: <<>> for undefined, [v |-> x] for the value x.               *)
(***************************************************************************)
EXTENDS Integers, Sequences, FiniteSets, TLC

\* Bounds of the inputs: the number of nodes (entries, changes, events) of a
\* Kind A body and of a Kind B body.
MaxSize == 4
MaxIgSize == 3

(***************************************************************************)
(* JavaScript helpers                                                      *)
(***************************************************************************)
EmptyObj == <<>>
Undefined == <<>>
Some(x) == [v |-> x]
Has(o, k) == k \in DOMAIN o
Prop(o, k) == IF Has(o, k) THEN Some(o[k]) ELSE Undefined
\* An object with the one property k, for each value of S, or without it.
Opt(k, S) == {EmptyObj} \cup {[j \in {k} |-> x] : x \in S}
Only(k, S) == {[j \in {k} |-> x] : x \in S}
\* The object o restricted to the properties ks it has.
Pick(o, ks) == [k \in (DOMAIN o) \cap ks |-> o[k]]

(***************************************************************************)
(* Inputs: webhook bodies.  Lists of elements with a total cost: byCost[c] *)
(* is the set of elements of cost c.                                       *)
(***************************************************************************)
RECURSIVE ListsOfCost(_, _)
ListsOfCost(byCost, n) ==
  IF n = 0 THEN {<<>>}
  ELSE UNION {{<<e>> \o s : e \in byCost[c], s \in ListsOfCost(byCost, n - c)} : c \in 1..n}

ListsUpTo(byCost, n) == UNION {ListsOfCost(byCost, k) : k \in 0..n}

\* Kind A ("whatsapp_business_account")
PhoneIds == {"106540352242922", "208811223344556"}
StatusAt(i) == [id |-> i, status |-> "delivered", recipient_id |-> "5491100000000"]
RawMessageAt(i) == [id |-> i, from |-> "5491100000000", type |-> "text"]
StatusList(n) == [i \in 1..n |-> StatusAt(i)]
RawMessageList(n) == [i \in 1..n |-> RawMessageAt(i)]

\* The values of a change with ns statuses and nm messages.
ValuesA(ns, nm) ==
  {md @@ st @@ ms :
     md \in Opt("metadata", {[phone_number_id |-> p] : p \in PhoneIds}),
     st \in IF ns = 0 THEN {EmptyObj} ELSE Only("statuses", {StatusList(ns)}),
     ms \in IF nm = 0 THEN {EmptyObj} ELSE Only("messages", {RawMessageList(nm)})}

ChangesA(c) ==
  {[field |-> "messages"] @@ vo :
     vo \in (IF c = 1 THEN {EmptyObj} ELSE {}) \cup
            Only("value", UNION {ValuesA(ns, c - 1 - ns) : ns \in 0..(c - 1)})}

EntriesA(c) ==
  {[id |-> "102290129340398"] @@ ch :
     ch \in (IF c = 1 THEN {EmptyObj} ELSE {}) \cup
            Only("changes", ListsOfCost([k \in 1..c |-> ChangesA(k)], c - 1))}

BodiesA ==
  {[object |-> "whatsapp_business_account"] @@ en :
     en \in Opt("entry", ListsUpTo([k \in 1..MaxSize |-> EntriesA(k)], MaxSize))}

\* Kind B ("instagram")
IgSender == [id |-> "17841400000000"]
IgRecipient == [id |-> "12345"]
IgEntryIds == {"", "0", "98765"}
IgMessage == [mid |-> "m1", text |-> "hola"]
IgEventBase == [sender |-> IgSender, timestamp |-> 1700000000]
IgEvents ==
  {IgEventBase @@ [recipient |-> IgRecipient] @@ kd :
     kd \in {[message |-> IgMessage], [delivery |-> [watermark |-> 1]],
             [read |-> [watermark |-> 1]], [postback |-> [payload |-> "p"]]}}
  \cup {IgEventBase @@ [message |-> IgMessage]}
IgValues == {IgEventBase @@ [message |-> IgMessage] @@ rc : rc \in Opt("recipient", {IgRecipient})}
IgChanges ==
  {[field |-> "messages"] @@ vo : vo \in Opt("value", IgValues)}
  \cup {[field |-> "comments", value |-> [id |-> "c1", text |-> "nice"]]}

\* An entry of cost 1 has no event; an entry of cost c > 1 has c - 1 events, in
\* its messaging array or in its changes array, or (with a single change) in both.
EntriesB(c) ==
  IF c = 1
  THEN {[id |-> "98765"] @@ ar : ar \in {EmptyObj, [messaging |-> <<>>], [changes |-> <<>>]}}
  ELSE {io @@ ar :
          io \in Opt("id", IgEntryIds),
          ar \in Only("messaging", ListsOfCost([k \in 1..c |-> IF k = 1 THEN IgEvents ELSE {}], c - 1))
                 \cup Only("changes", ListsOfCost([k \in 1..c |-> IF k = 1 THEN IgChanges ELSE {}], c - 1))}
       \cup {[id |-> "98765", changes |-> <<[field |-> "messages", value |-> v]>>] @@ ar :
               v \in IgValues,
               ar \in Only("messaging", ListsOfCost([k \in 1..c |-> IF k = 1 THEN IgEvents ELSE {}], c - 2))}

EntryListsB(n) == ListsUpTo([k \in 1..n |-> EntriesB(k)], n)

BodiesB == {[object |-> "instagram"] @@ en : en \in Opt("entry", EntryListsB(MaxIgSize))}

\* Any other top-level kind, or none.
BodiesOther ==
  {ob @@ en : ob \in Opt("object", {"page"}), en \in Opt("entry", EntryListsB(MaxIgSize - 1))}

Bodies == BodiesA \cup BodiesB \cup BodiesOther

\* The hex digest of HMAC-SHA256: an injective function of the key and the bytes.
Hmac(key, buf) == [key |-> key, data |-> buf]

AppSecret == "app-secret"
IgSecret == "ig-secret"
VerifyToken == "qms-verify-token"

\* services/config: the verify token and the second secret may be unset, and
\* the second secret may be the empty string (IG_APP_SECRET= in the environment).
Configs ==
  {[appSecret |-> AppSecret] @@ ig @@ vt :
     ig \in Opt("igAppSecret", {"", AppSecret, IgSecret}),
     vt \in Opt("verifyToken", {VerifyToken})}

\* The x-hub-signature-256 header, as the list of its parts between "=" signs:
\* <<"">> is the empty header value, <<"sha256">> a value without "=".
SignatureHeaders(buf) ==
  Opt("x-hub-signature-256",
      {<<"">>, <<"sha256">>} \cup
      {<<"sha256", Hmac(k, buf)>> : k \in {"", AppSecret, IgSecret, "not-the-secret"}})

UnsignedHeaders(buf) ==
  Opt("x-hub-signature-256", {<<"sha256", Hmac("not-the-secret", buf)>>})

PostRequest(type, h, b) ==
  [method |-> "POST", path |-> "/webhook", type |-> type, headers |-> h, payload |-> b]

Queries ==
  {m @@ t @@ c :
     m \in Opt("hub.mode", {"subscribe", "unsubscribe"}),
     t \in Opt("hub.verify_token", {VerifyToken, "wrong-token"}),
     c \in Opt("hub.challenge", {"1158201444"})}

GetRequests ==
  {[method |-> "GET", path |-> "/webhook", query |-> q] : q \in Queries}
  \cup {[method |-> "GET", path |-> p, query |-> EmptyObj] : p \in {"/health", "/"}}

(***************************************************************************)
(* verifyRequestSignature (src/app.js 154-200).  The result says whether   *)
(* the function threw, and with which error.                               *)
(***************************************************************************)
Returned(note) == [threw |-> FALSE, note |-> note]
Threw(error) == [threw |-> TRUE, note |-> error]

\* if (!signature): the header is absent or its value is the empty string.
NoSignature(headers) ==
  ~Has(headers, "x-hub-signature-256") \/ headers["x-hub-signature-256"] = <<"">>

\* let elements = signature.split("="); let signatureHash = elements[1];
SignatureHash(signature) == IF Len(signature) >= 2 THEN Some(signature[2]) ELSE Undefined

\* A verifier that tries the main App Secret only.
verifyMainSecretOnly(headers, buf, cfg) ==
  IF NoSignature(headers)
  THEN Returned("warn: no signature header")
  ELSE IF SignatureHash(headers["x-hub-signature-256"]) = Some(Hmac(cfg.appSecret, buf))
       THEN Returned("verified: appSecret")
       ELSE Threw("Error: Couldn't validate the request signature.")

verifyRequestSignature(headers, buf, cfg) ==
  IF NoSignature(headers)
  THEN Returned("warn: no signature header")
  ELSE LET signatureHash == SignatureHash(headers["x-hub-signature-256"])
           expectedHash == Some(Hmac(cfg.appSecret, buf))
       IN IF signatureHash = expectedHash
          THEN Returned("verified: appSecret")
          \* config.igAppSecret && config.igAppSecret !== config.appSecret
          ELSE IF Has(cfg, "igAppSecret") /\ cfg.igAppSecret # ""
                  /\ cfg.igAppSecret # cfg.appSecret
                  /\ signatureHash = Some(Hmac(cfg.igAppSecret, buf))
               THEN Returned("verified: igAppSecret")
               \* the error report reads config.igAppSecret.substring(0, 4)
               ELSE IF Prop(cfg, "igAppSecret") # Some(cfg.appSecret) /\ ~Has(cfg, "igAppSecret")
                    THEN Threw("TypeError: Cannot read properties of undefined (reading 'substring')")
                    ELSE Threw("Error: Couldn't validate the request signature.")

(***************************************************************************)
(* The dispatcher of POST /webhook (src/app.js 59-137).  A dispatch yields *)
(* the handler calls made, in order, and whether the walk threw.  Each     *)
(* call records the handler, its two arguments and, as history, the place  *)
(* (entry index, element index) of the body it was made for.               *)
(***************************************************************************)
Acc0 == [calls |-> <<>>, threw |-> FALSE]
Throw(acc) == [acc EXCEPT !.threw = TRUE]
Call(acc, fn, id, event, at) ==
  [acc EXCEPT !.calls = Append(@, [fn |-> fn, id |-> id, event |-> event, at |-> at])]

\* array.forEach((x) => Conversation.fn(id, x)): the handlers are asynchronous
\* and return at once.
RECURSIVE CallEach(_, _, _, _, _, _)
CallEach(acc, fn, id, array, at, n) ==
  IF n > Len(array) THEN acc
  ELSE CallEach(Call(acc, fn, id, array[n], at), fn, id, array, at, n + 1)

\* src/app.js 62-79
WhatsAppChange(acc, change, at) ==
  IF ~Has(change, "value") THEN acc
  ELSE LET value == change.value IN
       IF ~Has(value, "metadata") THEN Throw(acc)
       ELSE LET senderPhoneNumberId == value.metadata.phone_number_id
                a1 == IF Has(value, "statuses")
                      THEN CallEach(acc, "handleStatus", senderPhoneNumberId, value.statuses, at, 1)
                      ELSE acc
            IN IF Has(value, "messages")
               THEN CallEach(a1, "handleMessage", senderPhoneNumberId, value.messages, at, 1)
               ELSE a1

RECURSIVE WhatsAppChanges(_, _, _, _)
WhatsAppChanges(acc, changes, e, k) ==
  IF acc.threw \/ k > Len(changes) THEN acc
  ELSE WhatsAppChanges(WhatsAppChange(acc, changes[k], <<e, k>>), changes, e, k + 1)

RECURSIVE WhatsAppEntries(_, _, _)
WhatsAppEntries(acc, entries, e) ==
  IF acc.threw \/ e > Len(entries) THEN acc
  ELSE IF ~Has(entries[e], "changes") THEN Throw(acc)
       ELSE WhatsAppEntries(WhatsAppChanges(acc, entries[e].changes, e, 1), entries, e + 1)

\* entry.id && entry.id !== "0" ? entry.id : messagingEvent.recipient.id
\* An entry id test without the "0" sentinel.
UsesAnyEntryId(entry) == Has(entry, "id") /\ entry.id # ""

UsesEntryId(entry) == Has(entry, "id") /\ entry.id # "" /\ entry.id # "0"
BusinessId(entry, messagingEvent) ==
  IF UsesEntryId(entry) THEN Returned(entry.id)
  ELSE IF Has(messagingEvent, "recipient") THEN Returned(messagingEvent.recipient.id)
       ELSE Threw("TypeError: Cannot read properties of undefined (reading 'id')")

\* src/app.js 86-106
InstagramMessaging(acc, entry, messagingEvent, at) ==
  LET businessId == BusinessId(entry, messagingEvent) IN
  IF businessId.threw THEN Throw(acc)
  ELSE IF Has(messagingEvent, "message")
       THEN Call(acc, "handleInstagramMessage", businessId.note, messagingEvent, at)
       ELSE IF Has(messagingEvent, "delivery") \/ Has(messagingEvent, "read")
            THEN Call(acc, "handleInstagramStatus", businessId.note, messagingEvent, at)
            ELSE acc

\* The adapter of src/app.js 119-124: a property the value lacks is undefined.
AdaptChange(value) == Pick(value, {"sender", "recipient", "timestamp", "message"})

\* src/app.js 108-134
InstagramChange(acc, entry, change, at) ==
  IF Prop(change, "field") # Some("messages") THEN acc
  ELSE IF ~Has(change, "value") THEN Throw(acc)
       ELSE LET messagingEvent == AdaptChange(change.value)
                businessId == BusinessId(entry, messagingEvent)
            IN IF businessId.threw THEN Throw(acc)
               ELSE Call(acc, "handleInstagramMessage", businessId.note, messagingEvent, at)

RECURSIVE InstagramEvents(_, _, _, _, _)
InstagramEvents(acc, entry, branch, e, k) ==
  IF acc.threw \/ k > Len(entry[branch]) THEN acc
  ELSE InstagramEvents(
         IF branch = "messaging"
         THEN InstagramMessaging(acc, entry, entry[branch][k], <<e, k>>)
         ELSE InstagramChange(acc, entry, entry[branch][k], <<e, k>>),
         entry, branch, e, k + 1)

RECURSIVE InstagramEntries(_, _, _)
InstagramEntries(acc, entries, e) ==
  IF acc.threw \/ e > Len(entries) THEN acc
  ELSE LET entry == entries[e]
           a == IF Has(entry, "messaging") THEN InstagramEvents(acc, entry, "messaging", e, 1)
                ELSE IF Has(entry, "changes") THEN InstagramEvents(acc, entry, "changes", e, 1)
                     ELSE acc
       IN InstagramEntries(a, entries, e + 1)

\* A dispatcher whose second branch is a plain else.
DispatchElse(b) ==
  IF Prop(b, "object") = Some("whatsapp_business_account")
  THEN IF Has(b, "entry") THEN WhatsAppEntries(Acc0, b.entry, 1) ELSE Throw(Acc0)
  ELSE IF Has(b, "entry") THEN InstagramEntries(Acc0, b.entry, 1) ELSE Throw(Acc0)

Dispatch(b) ==
  IF Prop(b, "object") = Some("whatsapp_business_account")
  THEN IF Has(b, "entry") THEN WhatsAppEntries(Acc0, b.entry, 1) ELSE Throw(Acc0)
  ELSE IF Prop(b, "object") = Some("instagram")
       THEN IF Has(b, "entry") THEN InstagramEntries(Acc0, b.entry, 1) ELSE Throw(Acc0)
       ELSE Acc0

(***************************************************************************)
(* The Message constructor (src/unnamed/part_000 10-31).  Where a position *)
(* holds a string or an object, the string s is written [str |-> s].       *)
(***************************************************************************)
Str(s) == [str |-> s]

RawMessages ==
  {[id |-> "wamid.HBgM"] @@ ty @@ ia @@ tx @@ ms @@ fr @@ sn :
     ty \in Opt("type", {"interactive", "text", "image"}),
     ia \in Opt("interactive",
                {[type |-> "button_reply", button_reply |-> [id |-> "BUY_NOW", title |-> "Buy"]],
                 [type |-> "list_reply", list_reply |-> [id |-> "row-1", title |-> "Row"]]}),
     tx \in Opt("text", {[body |-> "hi"], [body |-> ""], Str("hi")}),
     ms \in Opt("message", {[mid |-> "m1", text |-> "hola"], [mid |-> "m1"]}),
     fr \in Opt("from", {"5491100000000"}),
     sn \in Opt("sender", {IgSender})}

\* rawMessage.text.body || rawMessage.text
TextOf(text) == IF Has(text, "body") /\ text.body # "" THEN Str(text.body) ELSE text

\* rawMessage.from || (rawMessage.sender ? rawMessage.sender.id : undefined)
SenderOf(rawMessage) ==
  IF Has(rawMessage, "from") /\ rawMessage.from # "" THEN [senderPhoneNumber |-> rawMessage.from]
  ELSE IF Has(rawMessage, "sender") /\ Has(rawMessage.sender, "id")
       THEN [senderPhoneNumber |-> rawMessage.sender.id]
       ELSE EmptyObj

\* The constructed object (a property left undefined is absent), or the throw.
Message(rawMessage) ==
  LET this == Pick(rawMessage, {"id"}) IN
  IF Prop(rawMessage, "type") = Some("interactive")
  THEN IF ~Has(rawMessage, "interactive")
       THEN Threw("TypeError: Cannot read properties of undefined (reading 'button_reply')")
       ELSE IF ~Has(rawMessage.interactive, "button_reply")
            THEN Threw("TypeError: Cannot read properties of undefined (reading 'id')")
            ELSE Returned(this @@ [type |-> rawMessage.interactive.button_reply.id]
                               @@ SenderOf(rawMessage))
  ELSE IF Has(rawMessage, "text") /\ rawMessage.text # Str("")
       THEN Returned(this @@ [type |-> "text", text |-> TextOf(rawMessage.text)]
                          @@ SenderOf(rawMessage))
       ELSE IF Has(rawMessage, "message") /\ Has(rawMessage.message, "text")
               /\ rawMessage.message.text # ""
            THEN Returned(this @@ [type |-> "text", text |-> Str(rawMessage.message.text)]
                               @@ SenderOf(rawMessage))
            ELSE Returned(this @@ [type |-> "unknown"] @@ SenderOf(rawMessage))

(***************************************************************************)
(* The listener: one request at a time goes through the two body parsers   *)
(* and its route.                                                          *)
(***************************************************************************)
VARIABLES
  config,     \* services/config, read once at start
  pc,         \* where the request is: idle, urlencoded, json, route, done
  req,        \* the request as sent
  body,       \* req.body: Undefined until a parser sets it
  verified,   \* the outcome of verifyRequestSignature for this request
  log,        \* the Conversation handler calls made for this request
  res,        \* the response sent: Undefined until sent
  rawMessage, \* the argument of new Message(rawMessage)
  message     \* its result: Undefined until constructed

mvars == <<rawMessage, message>>
vars == <<config, pc, req, body, verified, log, res, rawMessage, message>>

Text(status, text) == [status |-> status, body |-> Some(text)]
Json(status, obj) == [status |-> status, body |-> [json |-> obj]]

Init ==
  /\ config \in Configs
  /\ pc = "idle"
  /\ req = EmptyObj
  /\ body = Undefined
  /\ verified = "none"
  /\ log = <<>>
  /\ res = Undefined
  /\ rawMessage = EmptyObj
  /\ message = Undefined

\* A POST /webhook arrives: a JSON body with any signature header, or a form
\* body (which no signature is checked for).
ReceivePost ==
  /\ pc = "idle"
  /\ \E b \in Bodies :
       \/ \E h \in SignatureHeaders(b) : req' = PostRequest("application/json", h, b)
       \/ \E h \in UnsignedHeaders(b) :
            req' = PostRequest("application/x-www-form-urlencoded", h, b)
  /\ pc' = "urlencoded"
  /\ UNCHANGED <<mvars, config, body, verified, log, res>>

ReceiveGet ==
  /\ pc = "idle"
  /\ req' \in GetRequests
  /\ pc' = "urlencoded"
  /\ UNCHANGED <<mvars, config, body, verified, log, res>>

\* app.use(urlencoded({ extended: true })): parses a form body, verifies nothing.
UrlencodedParser ==
  /\ pc = "urlencoded"
  /\ pc' = "json"
  /\ body' = IF Has(req, "payload") /\ req.type = "application/x-www-form-urlencoded"
             THEN Some(req.payload) ELSE body
  /\ UNCHANGED <<mvars, config, req, verified, log, res>>

\* app.use(json({ verify: verifyRequestSignature })): skips a request without a
\* JSON body or with a body already parsed; a throw of verify ends the request
\* (body-parser passes it on as a 403 error).
JsonParser ==
  /\ pc = "json"
  /\ IF body = Undefined /\ Has(req, "payload") /\ req.type = "application/json"
     THEN LET v == verifyRequestSignature(req.headers, req.payload, config) IN
          IF v.threw
          THEN /\ verified' = "failed"
               /\ res' = Text(403, v.note)
               /\ pc' = "done"
               /\ UNCHANGED body
          ELSE /\ verified' = v.note
               /\ body' = Some(req.payload)
               /\ pc' = "route"
               /\ UNCHANGED res
     ELSE /\ pc' = "route"
          /\ UNCHANGED <<body, verified, res>>
  /\ UNCHANGED <<mvars, config, req, log>>

\* app.get("/health")
GetHealth ==
  /\ pc = "route" /\ req.method = "GET" /\ req.path = "/health"
  /\ res' = Json(200, [message |-> "Server is running", status |-> "ok"])
  /\ pc' = "done"
  /\ UNCHANGED <<mvars, config, req, body, verified, log>>

\* app.get("/")
GetRoot ==
  /\ pc = "route" /\ req.method = "GET" /\ req.path = "/"
  /\ res' = Json(200, [message |-> "Jasper's Market Server is running",
                       endpoints |-> <<"POST /webhook - WhatsApp webhook endpoint">>])
  /\ pc' = "done"
  /\ UNCHANGED <<mvars, config, req, body, verified, log>>

\* app.get("/webhook"): != is JavaScript's loose inequality, under which
\* undefined equals undefined.
GetWebhookResponse(query, cfg) ==
  IF Prop(query, "hub.mode") # Some("subscribe")
     \/ Prop(query, "hub.verify_token") # Prop(cfg, "verifyToken")
  THEN Text(403, "Forbidden")
  ELSE [status |-> 200, body |-> Prop(query, "hub.challenge")]

GetWebhook ==
  /\ pc = "route" /\ req.method = "GET" /\ req.path = "/webhook"
  /\ res' = GetWebhookResponse(req.query, config)
  /\ pc' = "done"
  /\ UNCHANGED <<mvars, config, req, body, verified, log>>

\* app.post("/webhook"): a throw of the walk leaves the calls already made and
\* is answered by Express with a 500.
PostWebhook ==
  /\ pc = "route" /\ req.method = "POST" /\ req.path = "/webhook"
  /\ LET d == Dispatch(body.v) IN
     /\ log' = d.calls
     /\ res' = IF d.threw THEN Text(500, "TypeError") ELSE Text(200, "EVENT_RECEIVED")
  /\ pc' = "done"
  /\ UNCHANGED <<mvars, config, req, body, verified>>

\* The request is over; the listener waits for the next one.
Finish ==
  /\ pc = "done"
  /\ pc' = "idle"
  /\ req' = EmptyObj
  /\ body' = Undefined
  /\ verified' = "none"
  /\ log' = <<>>
  /\ res' = Undefined
  /\ UNCHANGED <<mvars, config>>

Next ==
  \/ ReceivePost
  \/ ReceiveGet
  \/ UrlencodedParser
  \/ JsonParser
  \/ GetHealth
  \/ GetRoot
  \/ GetWebhook
  \/ PostWebhook
  \/ Finish

Spec == Init /\ [][Next]_vars

(***************************************************************************)
(* The Message constructor on its own: a raw message is given, and the     *)
(* constructor is applied to it.                                           *)
(***************************************************************************)
InitMessage ==
  /\ config = [appSecret |-> AppSecret]
  /\ pc = "message"
  /\ req = EmptyObj
  /\ body = Undefined
  /\ verified = "none"
  /\ log = <<>>
  /\ res = Undefined
  /\ rawMessage \in RawMessages
  /\ message = Undefined

Construct ==
  /\ pc = "message"
  /\ message = Undefined
  /\ message' = Some(Message(rawMessage))
  /\ UNCHANGED <<config, pc, req, body, verified, log, res, rawMessage>>

NextMessage == Construct

SpecMessage == InitMessage /\ [][NextMessage]_vars

(***************************************************************************)
(* Properties                                                              *)
(***************************************************************************)
Ack == Text(200, "EVENT_RECEIVED")

\* A POST /webhook request whose route handler has run.
PostHandled == pc = "done" /\ req.method = "POST" /\ verified # "failed"
SignaturePassed == verified \in {"verified: appSecret", "verified: igAppSecret"}
HasSignature == Has(req.headers, "x-hub-signature-256")
Kind == Prop(req.payload, "object")
KindA == Some("whatsapp_business_account")
KindB == Some("instagram")

\* The digest of the header is HMAC(raw body) under appSecret or under an
\* igAppSecret that is set, be it to the empty string.
DigestValidUnderSetSecret ==
  LET signature == req.headers["x-hub-signature-256"] IN
  /\ Len(signature) >= 2
  /\ \/ signature[2] = Hmac(config.appSecret, req.payload)
     \/ Has(config, "igAppSecret") /\ signature[2] = Hmac(config.igAppSecret, req.payload)

\* The digest of the header is HMAC(raw body) under appSecret or under an
\* igAppSecret that is set and not empty.
DigestValid ==
  LET signature == req.headers["x-hub-signature-256"] IN
  /\ Len(signature) >= 2
  /\ \/ signature[2] = Hmac(config.appSecret, req.payload)
     \/ /\ Has(config, "igAppSecret") /\ config.igAppSecret # ""
        /\ signature[2] = Hmac(config.igAppSecret, req.payload)

\* The calls of the log made for element k of entry e.
CallsAt(e, k) == SelectSeq(log, LAMBDA c : c.at = <<e, k>>)
Entries == IF Has(req.payload, "entry") THEN req.payload.entry ELSE <<>>
ChangesOf(entry) == IF Has(entry, "changes") THEN entry.changes ELSE <<>>

\* C1: a POST /webhook that passed signature verification and whose top-level
\* object is neither supported kind invokes no handler, raises no error and is
\* answered 200 "EVENT_RECEIVED".
C1_UnsupportedKindIgnored ==
  (PostHandled /\ SignaturePassed /\ Kind \notin {KindA, KindB})
    => (log = <<>> /\ res = Ack)

C1_Witness ==
  /\ PostHandled /\ SignaturePassed
  /\ Kind = Some("page")
  /\ Entries # <<>> /\ Has(Entries[1], "messaging") /\ Entries[1].messaging # <<>>
  /\ log = <<>> /\ res = Ack

\* C2: a POST /webhook that passed signature verification, of a supported kind
\* with malformed or missing nested parts, is still answered 200
\* "EVENT_RECEIVED" with no error surfaced.
C2_MalformedIgnored ==
  (PostHandled /\ SignaturePassed /\ Kind \in {KindA, KindB}) => res = Ack

\* C3: a POST /webhook carrying a signature header with a digest that matches
\* under no configured secret never reaches a handler and is never answered
\* 200 "EVENT_RECEIVED".
C3_MismatchStopsRequest ==
  (pc = "done" /\ req.method = "POST" /\ HasSignature
     /\ Len(req.headers["x-hub-signature-256"]) >= 2 /\ ~DigestValid)
    => (verified = "failed" /\ log = <<>> /\ res # Ack)

\* C4 as stated: with the signature header present, verifyRequestSignature
\* returns normally exactly when the digest after the "=" is the HMAC of the raw
\* body under appSecret or under a configured igAppSecret, and otherwise fails
\* with an error.
C4_AsStated ==
  (pc \in {"route", "done"} /\ req.method = "POST" /\ req.type = "application/json"
     /\ HasSignature)
    => /\ (verified # "failed") <=> DigestValidUnderSetSecret
       /\ ~DigestValidUnderSetSecret
            => (verified = "failed" /\ pc = "done" /\ res.status = 403)

\* C4, amended: the same with the signature header present and not empty, and
\* with igAppSecret counted as configured only when it is not the empty
\* string; the error ends the request with no handler call.
C4_VerifyIffDigestValid ==
  (pc \in {"route", "done"} /\ req.method = "POST" /\ req.type = "application/json"
     /\ HasSignature /\ req.headers["x-hub-signature-256"] # <<"">>)
    => /\ SignaturePassed <=> DigestValid
       /\ ~DigestValid => (verified = "failed" /\ pc = "done" /\ log = <<>>
                            /\ res.status = 403)

C4_Witness ==
  /\ pc = "done" /\ req.method = "POST" /\ req.type = "application/json"
  /\ HasSignature
  /\ verified = "verified: igAppSecret"
  /\ config.igAppSecret # config.appSecret
  /\ log # <<>>

\* C5: a POST /webhook without signature header raises no error in
\* verifyRequestSignature, is dispatched as the same body correctly signed is,
\* and is answered 200 "EVENT_RECEIVED".
C5_UnsignedProceeds ==
  (pc = "done" /\ req.method = "POST" /\ ~HasSignature)
    => (verified # "failed" /\ log = Dispatch(req.payload).calls /\ res = Ack)

\* C6: GET /webhook answers 200 with the hub.challenge value exactly when
\* hub.mode is "subscribe" and hub.verify_token is the configured verify token;
\* in every other case, a missing hub.verify_token and an unset configured
\* token included, it answers 403 without the challenge.
C6_HandshakeIffToken ==
  (pc = "done" /\ req.method = "GET" /\ req.path = "/webhook")
    => IF /\ Prop(req.query, "hub.mode") = Some("subscribe")
          /\ Has(req.query, "hub.verify_token") /\ Has(config, "verifyToken")
          /\ req.query["hub.verify_token"] = config.verifyToken
       THEN res.status = 200 /\ res.body = Prop(req.query, "hub.challenge")
       ELSE res.status = 403 /\ res.body # Prop(req.query, "hub.challenge")

\* C7: the Message constructor never fails, and resolves the type first match
\* wins: an interactive button reply gives the reply id; else a direct text
\* gives "text" with the body content; else a nested message.text gives "text"
\* with the nested body; else "unknown" with no text.
C7_TypeResolution ==
  (pc = "message" /\ message # Undefined)
    => LET r == message.v
           this == r.note
       IN /\ ~r.threw
          /\ IF /\ Prop(rawMessage, "type") = Some("interactive")
                /\ Has(rawMessage, "interactive")
                /\ Has(rawMessage.interactive, "button_reply")
             THEN this.type = rawMessage.interactive.button_reply.id
             ELSE IF Has(rawMessage, "text")
                  THEN /\ this.type = "text"
                       /\ this.text = (IF Has(rawMessage.text, "body")
                                       THEN Str(rawMessage.text.body) ELSE rawMessage.text)
                  ELSE IF Has(rawMessage, "message") /\ Has(rawMessage.message, "text")
                       THEN this.type = "text" /\ this.text = Str(rawMessage.message.text)
                       ELSE this.type = "unknown" /\ ~Has(this, "text")

\* The calls made to the two Kind B handlers.
IgCalls ==
  {i \in 1..Len(log) : log[i].fn \in {"handleInstagramMessage", "handleInstagramStatus"}}

\* C8 as stated: every Kind B call gets the entry id whenever that id is present
\* and not "0", and the event's recipient id when the entry id is "0" or absent.
C8_AsStated ==
  PostHandled =>
    \A i \in IgCalls :
      LET entry == Entries[log[i].at[1]] IN
      /\ (Has(entry, "id") /\ entry.id # "0") => log[i].id = entry.id
      /\ (~Has(entry, "id") \/ entry.id = "0")
           => (Has(log[i].event, "recipient") /\ log[i].id = log[i].event.recipient.id)

\* C8, amended: every Kind B call gets the entry id whenever that id is a
\* non-empty string other than "0", and the event's recipient id when the entry
\* id is "0", empty or absent.
C8_BusinessId ==
  PostHandled =>
    \A i \in IgCalls :
      LET entry == Entries[log[i].at[1]] IN
      IF Has(entry, "id") /\ entry.id \notin {"", "0"}
      THEN log[i].id = entry.id
      ELSE Has(log[i].event, "recipient") /\ log[i].id = log[i].event.recipient.id

C8_Witness ==
  /\ PostHandled
  /\ \E i \in IgCalls : Prop(Entries[log[i].at[1]], "id") = Some("0") /\ log[i].id = "12345"

\* What the claim of C9 expects for a change value: one handleStatus per
\* status, then one handleMessage per message, each with the phone-number-id
\* of the value's metadata.
ExpectedCallsA(value, at) ==
  LET statuses == IF Has(value, "statuses") THEN value.statuses ELSE <<>>
      messages == IF Has(value, "messages") THEN value.messages ELSE <<>>
      id == value.metadata.phone_number_id
  IN [n \in 1..Len(statuses) |->
        [fn |-> "handleStatus", id |-> id, event |-> statuses[n], at |-> at]]
     \o [n \in 1..Len(messages) |->
        [fn |-> "handleMessage", id |-> id, event |-> messages[n], at |-> at]]

\* C9: for a Kind A body, every change with a value has its statuses, then its
\* messages, handled once each in array order with the phone-number-id of the
\* enclosing change, all of them made by the time the route handler is over
\* (when it sends the 200 "EVENT_RECEIVED").
C9_KindADispatch ==
  (PostHandled /\ SignaturePassed /\ Kind = KindA)
    => \A e \in 1..Len(Entries) : \A k \in 1..Len(ChangesOf(Entries[e])) :
         LET change == ChangesOf(Entries[e])[k] IN
         Has(change, "value")
           => /\ Has(change.value, "metadata")
              /\ CallsAt(e, k) = ExpectedCallsA(change.value, <<e, k>>)

\* The entries of a Kind B body that have a changes array and no messaging array.
ChangesOnly == {e \in 1..Len(Entries) :
                  Has(Entries[e], "changes") /\ ~Has(Entries[e], "messaging")}
\* The call is the adapted change: handleInstagramMessage with exactly the
\* sender, recipient, timestamp and message of the change's value.
IsAdapted(c, change) ==
  /\ c.fn = "handleInstagramMessage"
  /\ Has(change, "value")
  /\ DOMAIN c.event \subseteq {"sender", "recipient", "timestamp", "message"}
  /\ \A f \in {"sender", "recipient", "timestamp", "message"} :
       Prop(c.event, f) = Prop(change.value, f)

\* C10: for a verified Kind B body and every entry with a changes array and no
\* messaging array, each element of changes that has a value and the field
\* "messages" is adapted into an event with exactly the sender, recipient,
\* timestamp and message of that value, and the adapted event is dispatched
\* exactly once to handleInstagramMessage.
C10_ChangesAdapted ==
  (pc = "done" /\ req.method = "POST" /\ SignaturePassed /\ Kind = KindB)
    => \A e \in ChangesOnly : \A k \in 1..Len(Entries[e].changes) :
         LET change == Entries[e].changes[k] IN
         (Prop(change, "field") = Some("messages") /\ Has(change, "value"))
           => /\ Len(CallsAt(e, k)) = 1
              /\ IsAdapted(CallsAt(e, k)[1], change)

====
